---- MODULE Spec2Model ----
(***************************************************************************)
(* Model of webapp/rwchcd.py: the web front end of the rwchcd heating      *)
(* controller.  A request is received, handled by one handler (the whole   *)
(* handler is one action) and answered.  The D-Bus objects of the daemon   *)
(* are the gateway state rt / hc / dh; every mutating D-Bus call and the   *)
(* MQTT publish may raise, which aborts the handler (nothing in the file   *)
(* catches it).                                                            *)
(***************************************************************************)
EXTENDS Integers, Sequences, FiniteSets, TLC

VARIABLES cfg,      \* the configuration document loaded by loadcfg()
          phase,    \* "startup" | "serving" | "crashed"
          gwUp,     \* can bus.get() reach the daemon (startup loop)
          rt,       \* Runtime object: SystemMode, StopDhw
          hc,       \* Hcircuit object 0
          dh,       \* DHWT object 0
          broker,   \* retained value of <topicbase>/system on the MQTT host
          startpub, \* payloads published by startup()
          pc,       \* "idle" | "recv" | "done" : position of the request
          req,      \* the request being handled
          resp,     \* calls issued by the handler and its outcome
          thr       \* concurrent global-mode submissions: position and mode

vars ==
  <<cfg, phase, gwUp, rt, hc, dh, broker, startpub, pc, req, resp, thr>>

----------------------------------------------------------------------------
(* Bounds *)

\* requests address ids 0..MaxReqId; the daemon has object 0 of each kind
MaxReqId == 1

----------------------------------------------------------------------------
(* Optional values: Python None against a present value *)

NoneS == [has |-> FALSE, v |-> ""]          \* absent string
Str(s) == [has |-> TRUE, v |-> s]
NoneL == [has |-> FALSE, v |-> <<>>]        \* absent list / absent text
Lst(l) == [has |-> TRUE, v |-> l]

\* Python truthiness of an optional string / of an optional list
TruthyS(x) == x.has /\ x.v # ""
TruthyL(x) == x.has /\ x.v # <<>>

----------------------------------------------------------------------------
(* Submitted text: a sequence of characters *)

Digits == {"0", "1", "2", "3", "4", "5", "6", "7", "8", "9"}

DigitVal(c) ==
  CASE c = "0" -> 0 [] c = "1" -> 1 [] c = "2" -> 2 [] c = "3" -> 3
    [] c = "4" -> 4 [] c = "5" -> 5 [] c = "6" -> 6 [] c = "7" -> 7
    [] c = "8" -> 8 [] c = "9" -> 9

RECURSIVE DigitsVal(_)
DigitsVal(s) ==
  IF s = <<>> THEN 0
  ELSE 10 * DigitsVal(SubSeq(s, 1, Len(s) - 1)) + DigitVal(s[Len(s)])

AllDigits(s) == \A i \in 1..Len(s) : s[i] \in Digits

DigitOf(d) == CHOOSE c \in Digits : DigitVal(c) = d

\* the decimal text of a natural number, as it stands in a URL
RECURSIVE IntText(_)
IntText(i) ==
  IF i < 10 THEN <<DigitOf(i)>>
  ELSE IntText(i \div 10) \o <<DigitOf(i % 10)>>

RECURSIVE LStrip(_)
LStrip(s) == IF s # <<>> /\ s[1] = " " THEN LStrip(Tail(s)) ELSE s

RECURSIVE RStrip(_)
RStrip(s) ==
  IF s # <<>> /\ s[Len(s)] = " " THEN RStrip(SubSeq(s, 1, Len(s) - 1)) ELSE s

HasSign(s) == s # <<>> /\ s[1] \in {"+", "-"}
Unsigned(s) == IF HasSign(s) THEN Tail(s) ELSE s
SignOf(s) == IF s # <<>> /\ s[1] = "-" THEN -1 ELSE 1

\* int(x): None raises TypeError, text that is not [ws][sign]digits[ws]
\* raises ValueError
PyInt(x) ==
  IF ~x.has THEN [ok |-> FALSE, n |-> 0]
  ELSE LET t == RStrip(LStrip(x.v))
           d == Unsigned(t)
       IN IF d # <<>> /\ AllDigits(d)
          THEN [ok |-> TRUE, n |-> SignOf(t) * DigitsVal(d)]
          ELSE [ok |-> FALSE, n |-> 0]

\* position of the first "." in s, Len(s)+1 when there is none
RECURSIVE DotPos(_, _)
DotPos(s, i) ==
  IF i > Len(s) THEN i ELSE IF s[i] = "." THEN i ELSE DotPos(s, i + 1)

\* form.regexp('^[+-]?\d+\.?\d*$'): sign, digits, optional point, digits
MatchesDecimal(s) ==
  LET d == Unsigned(s)
      p == DotPos(d, 1)
      ip == SubSeq(d, 1, p - 1)
      fp == SubSeq(d, p + 1, Len(d))
  IN ip # <<>> /\ AllDigits(ip) /\ AllDigits(fp)

RECURSIVE Pow10(_)
Pow10(k) == IF k = 0 THEN 1 ELSE 10 * Pow10(k - 1)

\* a decimal number m / 10^e in lowest form
RECURSIVE Norm(_, _)
Norm(m, e) ==
  IF e > 0 /\ m % 10 = 0 THEN Norm(m \div 10, e - 1) ELSE <<m, e>>

\* float() without the sign and the decimal point
PyFloat_nosign(s) == <<DigitsVal(SelectSeq(s, LAMBDA ch : ch \in Digits)), 0>>

\* float(x) of a text accepted by MatchesDecimal
PyFloat(s) ==
  LET d == Unsigned(s)
      p == DotPos(d, 1)
      ip == SubSeq(d, 1, p - 1)
      fp == SubSeq(d, p + 1, Len(d))
  IN Norm(SignOf(s) * (DigitsVal(ip) * Pow10(Len(fp)) + DigitsVal(fp)), Len(fp))

----------------------------------------------------------------------------
(* web.py form inputs *)

\* form.notnull: bool(value)
notnull(x) == x.has /\ x.v # <<>>

\* formHcTemps: Textbox('overridetemp', form.notnull, form.regexp(...))
formHcTemps_validates(x) == notnull(x) /\ MatchesDecimal(x.v)

\* formRwchcd: Dropdown('sysmode', None, ...) declares no validator
formRwchcd_validates(x) == TRUE

\* formHcRunMode / formDhwRunMode: Checkbox and Dropdown without validators
formRunMode_validates(chk, x) == TRUE

\* formDhwProps: three Checkboxes without validators
formDhwProps_validates(chk) == TRUE

\* Checkbox.set_value: checked = bool(value)
Checked(x) == x.has /\ x.v # <<>>

----------------------------------------------------------------------------
(* Configuration *)

ModesStd == << <<2, "Auto">>, <<4, "Reduit">> >>
ModesGod == << <<1, "Off">>, <<2, "Auto">>, <<3, "Confort">>, <<7, "Test">> >>
RunStd == << <<1, "Mode General">>, <<4, "Hors-Gel">> >>
RunGod ==
  << <<1, "Mode General">>, <<2, "Confort">>, <<3, "Reduit">>, <<4, "Hors-Gel">> >>

CfgFull ==
  [godname |-> Str("admin"),
   modes |-> Lst(ModesStd), godmodes |-> Lst(ModesGod),
   hcircuits |-> Lst(<<0>>), godhcircuits |-> Lst(<<0>>),
   hcircrunmodes |-> Lst(RunStd), hcircgodmodes |-> Lst(RunGod),
   dhwts |-> Lst(<<0>>), goddhwts |-> Lst(<<0>>),
   dhwtrunmodes |-> Lst(RunStd), dhwtgodmodes |-> Lst(RunGod),
   mqtthost |-> Str("broker"), mqtttopicbase |-> Str("rwchcd")]

\* no administrator configured, no circuit run modes, no tanks
CfgNoGod ==
  [CfgFull EXCEPT !.godname = NoneS, !.hcircrunmodes = NoneL, !.dhwts = NoneL]

\* administrator name configured as the empty string
CfgEmptyGod == [CfgFull EXCEPT !.godname = Str("")]

\* only the administrator has the features, the others see the tanks
\* with an empty run-mode list; no MQTT host
CfgGodOnly ==
  [CfgFull EXCEPT !.modes = NoneL, !.hcircuits = NoneL, !.hcircrunmodes = NoneL,
                  !.dhwtrunmodes = Lst(<<>>),
                  !.mqtthost = NoneS, !.mqtttopicbase = NoneS]

\* the administrator's lists are empty or absent: the standard ones apply
CfgStdOnly ==
  [CfgFull EXCEPT !.godmodes = Lst(<<>>), !.godhcircuits = NoneL,
                  !.hcircgodmodes = Lst(<<>>), !.goddhwts = Lst(<<>>),
                  !.dhwtgodmodes = NoneL]

\* an MQTT host without a topic base
CfgNoTopic == [CfgFull EXCEPT !.mqtttopicbase = NoneS]

CfgSet == {CfgFull, CfgNoGod, CfgEmptyGod, CfgGodOnly, CfgStdOnly, CfgNoTopic}

\* REMOTE_USER of a request
Users == {NoneS, Str(""), Str("admin"), Str("Admin")}

\* get_godalt without the test that godname is set
get_godalt_anyname(c, user, cfggod, cfgdef) ==
  LET god == (user = c.godname)
  IN IF god
     THEN (IF TruthyL(c[cfggod]) THEN c[cfggod] ELSE c[cfgdef])
     ELSE c[cfgdef]

\* get_godalt(cfggod, cfgdef) for the caller user
get_godalt(c, user, cfggod, cfgdef) ==
  LET god == TruthyS(c.godname) /\ (user = c.godname)
  IN IF god
     THEN (IF TruthyL(c[cfggod]) THEN c[cfggod] ELSE c[cfgdef])
     ELSE c[cfgdef]

\* the codes of a list of (code, label) choices
Codes(l) == {l[i][1] : i \in 1..Len(l)}

\* the members of a list of ids
Members(l) == {l[i] : i \in 1..Len(l)}

----------------------------------------------------------------------------
(* Calls issued by a handler, in the order of issue *)

NoF == <<0, 0>>

Call(op, ok, n, f, b) == [op |-> op, ok |-> ok, n |-> n, f |-> f, b |-> b]

setSuppressFlag(b, ok) == Call("setSuppressFlag", ok, 0, NoF, b)
setSystemMode(n, ok) == Call("setSystemMode", ok, n, NoF, FALSE)
setOffset(f, ok) == Call("setOffset", ok, 0, f, FALSE)
setForceCharge(b, ok) == Call("setForceCharge", ok, 0, NoF, b)
setOverride(n, ok) == Call("setOverride", ok, n, NoF, FALSE)
clearOverride(ok) == Call("clearOverride", ok, 0, NoF, FALSE)
publish(n, ok) == Call("publish", ok, n, NoF, FALSE)
fhsync == Call("fhsync", TRUE, 0, NoF, FALSE)

Mutating ==
  {"setSuppressFlag", "setSystemMode", "setOffset", "setForceCharge",
   "setOverride", "clearOverride"}

\* where a handler's external call raises
FailPoints == {"none", "w1", "w2", "pub"}

\* alt: the list get_godalt returned for the handler's first lookup
Result(calls, outcome, shown) ==
  [calls |-> calls, outcome |-> outcome, shown |-> shown, alt |-> NoneL]

NoResp == Result(<<>>, "none", 0)

----------------------------------------------------------------------------
(* The daemon's objects *)

\* Runtime.StopDhw = v ; Runtime.SystemMode = v
rt_StopDhw(r, b) == [r EXCEPT !.StopDhw = b]
rt_SystemMode(r, n) == [r EXCEPT !.SystemMode = n]

\* SetTempOffsetOverride, SetRunmodeOverride, DisableRunmodeOverride
ent_SetTempOffsetOverride(e, f) == [e EXCEPT !.TempOffsetOverride = f]
ent_SetRunmodeOverride(e, n) ==
  [e EXCEPT !.RunModeOverride = TRUE, !.RunMode = n]
ent_DisableRunmodeOverride(e) ==
  [e EXCEPT !.RunModeOverride = FALSE, !.RunMode = e.RunModeOrig]
ent_ForceChargeOn(e, b) == [e EXCEPT !.ForceChargeOn = b]

\* the effect of one call that did not raise
ApplyRt(r, c) ==
  IF ~c.ok THEN r
  ELSE IF c.op = "setSuppressFlag" THEN rt_StopDhw(r, c.b)
  ELSE IF c.op = "setSystemMode" THEN rt_SystemMode(r, c.n)
  ELSE r

ApplyEnt(e, c) ==
  IF ~c.ok THEN e
  ELSE IF c.op = "setOffset" THEN ent_SetTempOffsetOverride(e, c.f)
  ELSE IF c.op = "setForceCharge" THEN ent_ForceChargeOn(e, c.b)
  ELSE IF c.op = "setOverride" THEN ent_SetRunmodeOverride(e, c.n)
  ELSE IF c.op = "clearOverride" THEN ent_DisableRunmodeOverride(e)
  ELSE e

ApplyBroker(b, c) ==
  IF c.ok /\ c.op = "publish" THEN [has |-> TRUE, n |-> c.n] ELSE b

RECURSIVE FoldRt(_, _)
FoldRt(r, cs) == IF cs = <<>> THEN r ELSE FoldRt(ApplyRt(r, Head(cs)), Tail(cs))

RECURSIVE FoldEnt(_, _)
FoldEnt(e, cs) ==
  IF cs = <<>> THEN e ELSE FoldEnt(ApplyEnt(e, Head(cs)), Tail(cs))

RECURSIVE FoldBroker(_, _)
FoldBroker(b, cs) ==
  IF cs = <<>> THEN b ELSE FoldBroker(ApplyBroker(b, Head(cs)), Tail(cs))

----------------------------------------------------------------------------
(* The global mode: class rwchcd *)

\* 0x7F, the largest primary mode
MaxPrimary == 127

\* mode & 0x7F and mode & 0x80 of a Python int
And7F(n) == n % 128
And80(n) == ((n \div 128) % 2) * 128

\* SystemMode written without the mask
SysmodePrimary_nomask(mode) == mode

\* SystemMode written with a mask of eight bits
SysmodePrimary_mask8(mode) == mode % 256

\* rwchcd_Runtime.SystemMode = mode & 0x7F
SysmodePrimary(mode) == And7F(mode)

\* rwchcd_Runtime.StopDhw = mode & 0x80 (D-Bus boolean: non-zero is true)
SysmodeStopDhw(mode) == And80(mode) # 0

\* n | 0x80 of a Python int
Or80(n) == IF And80(n) = 0 THEN n + 128 ELSE n

\* currmode without the StopDhw bit
Composite_noflag(r) == r.SystemMode

\* currmode = SystemMode; if StopDhw: currmode |= 0x80
Composite(r) == IF r.StopDhw THEN Or80(r.SystemMode) ELSE r.SystemMode

\* mqtt_pub_mode(mode): the calls it makes and whether it raised
mqtt_pub_mode(c, mode, fail) ==
  IF ~TruthyS(c.mqtthost) THEN [calls |-> <<>>, raised |-> FALSE]
  ELSE IF ~c.mqtttopicbase.has THEN [calls |-> <<>>, raised |-> TRUE]
  ELSE [calls |-> <<publish(mode, fail # "pub")>>, raised |-> fail = "pub"]

rwchcd_GET_result(c, r, g) ==
  LET modes == get_godalt(c, r.user, "godmodes", "modes")
  IN IF TruthyL(modes) THEN Result(<<>>, "page", Composite(g))
     ELSE Result(<<>>, "page", 0)

rwchcd_POST_result(c, r, fail) ==
  LET modes == get_godalt(c, r.user, "godmodes", "modes")
      m == PyInt(r.sysmode)
  IN IF ~TruthyL(modes) THEN Result(<<>>, "badrequest", 0)
     ELSE IF ~formRwchcd_validates(r.sysmode) THEN Result(<<>>, "form", 0)
     ELSE IF ~m.ok THEN Result(<<>>, "error", 0)
     ELSE LET w1 == setSuppressFlag(SysmodeStopDhw(m.n), fail # "w1")
              w2 == setSystemMode(SysmodePrimary(m.n), fail # "w2")
              pub == mqtt_pub_mode(c, m.n, fail)
          IN IF fail = "w1" THEN Result(<<w1>>, "error", 0)
             ELSE IF fail = "w2" THEN Result(<<w1, w2>>, "error", 0)
             ELSE IF pub.raised THEN Result(<<w1, w2>> \o pub.calls, "error", 0)
             ELSE Result(<<w1, w2>> \o pub.calls \o <<fhsync>>, "valid", 0)

----------------------------------------------------------------------------
(* Heating circuits: class hcircuit *)

\* get_hcirc(id): the ids of the URL are digits, int(id) cannot raise;
\* "int(id) not in None" raises and is answered by badrequest
get_hcirc(c, r) ==
  LET n == PyInt(Lst(r.id))
      ids == get_godalt(c, r.user, "godhcircuits", "hcircuits")
  IN IF ~n.ok \/ ~ids.has THEN "badrequest"
     ELSE IF n.n \notin Members(ids.v) THEN "notfound"
     ELSE "found"

\* the plan without the comparison with RunModeOrig
hcircuit_plan_nocollapse(checked, value, orig) ==
  IF ~checked THEN "clear"
  ELSE IF ~PyInt(value).ok THEN "raise"
  ELSE "set"

\* the plan with "or" in place of "and"
hcircuit_plan_or(checked, value, orig) ==
  IF checked THEN "set"
  ELSE IF ~PyInt(value).ok THEN "raise"
  ELSE IF PyInt(value).n # orig THEN "set"
  ELSE "clear"

\* the plan with "==" in place of "!="
hcircuit_plan_inverted(checked, value, orig) ==
  IF ~checked THEN "clear"
  ELSE IF ~PyInt(value).ok THEN "raise"
  ELSE IF PyInt(value).n = orig THEN "set"
  ELSE "clear"

\* frm.overriderunmode.checked and (int(frm.runmode.value) != RunModeOrig):
\* "set", "clear", or "raise" when int() raises
hcircuit_plan(checked, value, orig) ==
  IF ~checked THEN "clear"
  ELSE IF ~PyInt(value).ok THEN "raise"
  ELSE IF PyInt(value).n # orig THEN "set"
  ELSE "clear"

\* the override part of a valid submission, after the first mutation
OverrideCalls(plan, value, fail) ==
  IF plan = "set" THEN <<setOverride(PyInt(value).n, fail # "w2")>>
  ELSE IF plan = "clear" THEN <<clearOverride(fail # "w2")>>
  ELSE <<>>

hcircuit_GET_result(c, r, e) ==
  IF get_hcirc(c, r) # "found" THEN Result(<<>>, get_hcirc(c, r), 0)
  ELSE Result(<<>>, "page", e.RunMode)

\* the submission with the override reconciled whatever the run-mode list
hcircuit_POST_result_always(c, r, fail, e) ==
  LET vft == formHcTemps_validates(r.overridetemp)
      plan == hcircuit_plan(Checked(r.overriderunmode), r.runmode,
                            e.RunModeOrig)
      w1 == setOffset(PyFloat(r.overridetemp.v), fail # "w1")
      w2 == OverrideCalls(plan, r.runmode, fail)
  IN IF get_hcirc(c, r) # "found" THEN Result(<<>>, get_hcirc(c, r), 0)
     ELSE IF ~vft THEN Result(<<>>, "form", 0)
     ELSE IF fail = "w1" THEN Result(<<w1>>, "error", 0)
     ELSE IF plan = "raise" \/ fail = "w2" THEN Result(<<w1>> \o w2, "error", 0)
     ELSE Result(<<w1>> \o w2, "valid", 0)

hcircuit_POST_result(c, r, fail, e) ==
  LET vft == formHcTemps_validates(r.overridetemp)
      runmodes == get_godalt(c, r.user, "hcircgodmodes", "hcircrunmodes")
      vfrm == IF TruthyL(runmodes)
              THEN formRunMode_validates(r.overriderunmode, r.runmode)
              ELSE TRUE
      plan == hcircuit_plan(Checked(r.overriderunmode), r.runmode,
                            e.RunModeOrig)
      w1 == setOffset(PyFloat(r.overridetemp.v), fail # "w1")
      w2 == OverrideCalls(plan, r.runmode, fail)
  IN IF get_hcirc(c, r) # "found" THEN Result(<<>>, get_hcirc(c, r), 0)
     ELSE IF ~(vft /\ vfrm) THEN Result(<<>>, "form", 0)
     ELSE IF fail = "w1" THEN Result(<<w1>>, "error", 0)
     ELSE IF ~TruthyL(runmodes) THEN Result(<<w1>>, "valid", 0)
     ELSE IF plan = "raise" \/ fail = "w2" THEN Result(<<w1>> \o w2, "error", 0)
     ELSE Result(<<w1>> \o w2, "valid", 0)

----------------------------------------------------------------------------
(* Hot water tanks: class dhwt *)

get_dhwt(c, r) ==
  LET n == PyInt(Lst(r.id))
      ids == get_godalt(c, r.user, "goddhwts", "dhwts")
  IN IF ~n.ok \/ ~ids.has THEN "badrequest"
     ELSE IF n.n \notin Members(ids.v) THEN "notfound"
     ELSE "found"

\* the tank's plan without the comparison with RunModeOrig
dhwt_plan_nocollapse(checked, value, orig) ==
  IF ~checked THEN "clear"
  ELSE IF ~PyInt(value).ok THEN "raise"
  ELSE "set"

\* frm.overriderunmode.checked and (int(frm.runmode.value) != RunModeOrig)
dhwt_plan(checked, value, orig) ==
  IF ~checked THEN "clear"
  ELSE IF ~PyInt(value).ok THEN "raise"
  ELSE IF PyInt(value).n # orig THEN "set"
  ELSE "clear"

dhwt_GET_result(c, r, e) ==
  IF get_dhwt(c, r) # "found" THEN Result(<<>>, get_dhwt(c, r), 0)
  ELSE Result(<<>>, "page", e.RunMode)

dhwt_POST_result(c, r, fail, e) ==
  LET vfp == formDhwProps_validates(r.forcecharge)
      runmodes == get_godalt(c, r.user, "dhwtgodmodes", "dhwtrunmodes")
      vfrm == IF TruthyL(runmodes)
              THEN formRunMode_validates(r.overriderunmode, r.runmode)
              ELSE TRUE
      plan == dhwt_plan(Checked(r.overriderunmode), r.runmode, e.RunModeOrig)
      w1 == setForceCharge(Checked(r.forcecharge), fail # "w1")
      w2 == OverrideCalls(plan, r.runmode, fail)
  IN IF get_dhwt(c, r) # "found" THEN Result(<<>>, get_dhwt(c, r), 0)
     ELSE IF ~(vfp /\ vfrm) THEN Result(<<>>, "form", 0)
     ELSE IF fail = "w1" THEN Result(<<w1>>, "error", 0)
     ELSE IF ~TruthyL(runmodes) THEN Result(<<w1>>, "valid", 0)
     ELSE IF plan = "raise" \/ fail = "w2" THEN Result(<<w1>> \o w2, "error", 0)
     ELSE Result(<<w1>> \o w2, "valid", 0)

----------------------------------------------------------------------------
(* Requests *)

Txt(s) == Lst(s)

SysmodeTexts ==
  {NoneL, Txt(<<"2">>), Txt(<<"7">>), Txt(<<"1", "3", "1">>),
   Txt(<<"2", "5", "9">>), Txt(<<"x">>)}
RunmodeTexts ==
  {NoneL, Txt(<<"1">>), Txt(<<"2">>), Txt(<<" ", "4">>), Txt(<<"x">>)}
OffsetTexts ==
  {NoneL, Txt(<<"-", "1", ".", "5">>), Txt(<<"2", ".">>), Txt(<<"a", "b", "c">>)}
DhwtRunmodeTexts == {NoneL, Txt(<<"2">>), Txt(<<"3">>), Txt(<<"x">>)}
CheckTexts == {NoneL, Txt(<<"y">>)}

\* last path segments that are not a number
PathTexts == {<<"x">>, <<"-", "1">>}

Req(kind, method, user, id, sysmode, overridetemp, chk, runmode, force) ==
  [kind |-> kind, method |-> method, user |-> user, id |-> id,
   sysmode |-> sysmode, overridetemp |-> overridetemp,
   overriderunmode |-> chk, runmode |-> runmode, forcecharge |-> force]

NoReq == Req("none", "none", NoneS, <<>>, NoneL, NoneL, NoneL, NoneL, NoneL)

Requests ==
       {Req("rwchcd", "GET", u, <<>>, NoneL, NoneL, NoneL, NoneL, NoneL) :
          u \in Users}
  \cup {Req("rwchcd", "POST", u, <<>>, s, NoneL, NoneL, NoneL, NoneL) :
          u \in Users, s \in SysmodeTexts}
  \cup {Req("hcircuit", "GET", u, IntText(i), NoneL, NoneL, NoneL, NoneL, NoneL) :
          u \in Users, i \in 0..MaxReqId}
  \cup {Req("hcircuit", "POST", u, IntText(i), NoneL, o, k, m, NoneL) :
          u \in Users, i \in 0..MaxReqId, o \in OffsetTexts,
          k \in CheckTexts, m \in RunmodeTexts}
  \cup {Req("dhwt", "GET", u, IntText(i), NoneL, NoneL, NoneL, NoneL, NoneL) :
          u \in Users, i \in 0..MaxReqId}
  \cup {Req("dhwt", "POST", u, IntText(i), NoneL, NoneL, k, m, f) :
          u \in Users, i \in 0..MaxReqId, k \in CheckTexts,
          m \in DhwtRunmodeTexts, f \in CheckTexts}
  \cup {Req(k, m, u, i, NoneL, NoneL, NoneL, NoneL, NoneL) :
          k \in {"hcircuit", "dhwt"}, m \in {"GET", "POST"},
          u \in Users, i \in PathTexts}

\* '/', '/hcircuit/(\d+)', '/dhwt/(\d+)': the handler the URL is mapped to
Routed(r) == r.kind = "rwchcd" \/ (r.id # <<>> /\ AllDigits(r.id))

----------------------------------------------------------------------------
(* Initial state *)

NoPub == [has |-> FALSE, n |-> 0]

\* the threads of the server that handle global-mode submissions together
Threads == {"A", "B"}

NoThreads == [t \in Threads |-> [pc |-> "idle", mode |-> 0]]

Entity(orig) ==
  [RunModeOrig |-> orig, RunModeOverride |-> FALSE, RunMode |-> orig,
   TempOffsetOverride |-> NoF, ForceChargeOn |-> FALSE]

Init ==
  /\ cfg \in CfgSet
  /\ phase = "startup"
  /\ gwUp \in BOOLEAN
  /\ rt = [SystemMode |-> 2, StopDhw |-> FALSE]
  /\ hc = Entity(1)
  /\ dh = Entity(2)
  /\ broker = NoPub
  /\ startpub = <<>>
  /\ pc = "idle"
  /\ req = NoReq
  /\ resp = NoResp
  /\ thr = NoThreads

----------------------------------------------------------------------------
(* startup() *)

\* the daemon gets started
GatewayComesUp ==
  /\ phase = "startup"
  /\ ~gwUp
  /\ gwUp' = TRUE
  /\ UNCHANGED <<cfg, phase, rt, hc, dh, broker, startpub, pc, req, resp, thr>>

\* cfg.get('modes') is not set: nothing to publish
StartupSkip ==
  /\ phase = "startup"
  /\ ~TruthyL(cfg.modes)
  /\ phase' = "serving"
  /\ UNCHANGED <<cfg, gwUp, rt, hc, dh, broker, startpub, pc, req, resp, thr>>

\* bus.get() raises: sleep(1) and try again
StartupRetry ==
  /\ phase = "startup"
  /\ TruthyL(cfg.modes)
  /\ ~gwUp
  /\ UNCHANGED vars

\* bus.get() succeeds: publish the current mode
StartupPublish ==
  /\ phase = "startup"
  /\ TruthyL(cfg.modes)
  /\ gwUp
  /\ \E fail \in {"none", "pub"} :
       LET pub == mqtt_pub_mode(cfg, Composite(rt), fail)
       IN /\ phase' = IF pub.raised THEN "crashed" ELSE "serving"
          /\ broker' = FoldBroker(broker, pub.calls)
          /\ startpub' = startpub \o pub.calls
  /\ UNCHANGED <<cfg, gwUp, rt, hc, dh, pc, req, resp, thr>>

----------------------------------------------------------------------------
(* Serving requests *)

Receive ==
  /\ phase = "serving"
  /\ pc = "idle"
  /\ \E r \in Requests : req' = r
  /\ pc' = "recv"
  /\ UNCHANGED <<cfg, phase, gwUp, rt, hc, dh, broker, startpub, resp, thr>>

Handling(kind, method) ==
  /\ phase = "serving"
  /\ pc = "recv"
  /\ Routed(req)
  /\ req.kind = kind
  /\ req.method = method
  /\ pc' = "done"
  /\ UNCHANGED <<cfg, phase, gwUp, startpub, req, thr>>

rwchcd_GET ==
  /\ Handling("rwchcd", "GET")
  /\ resp' = [rwchcd_GET_result(cfg, req, rt) EXCEPT
               !.alt = get_godalt(cfg, req.user, "godmodes", "modes")]
  /\ UNCHANGED <<rt, hc, dh, broker>>

rwchcd_POST ==
  /\ Handling("rwchcd", "POST")
  /\ \E fail \in FailPoints :
       /\ resp' = [rwchcd_POST_result(cfg, req, fail) EXCEPT
                    !.alt = get_godalt(cfg, req.user, "godmodes", "modes")]
       /\ rt' = FoldRt(rt, resp'.calls)
       /\ broker' = FoldBroker(broker, resp'.calls)
  /\ UNCHANGED <<hc, dh>>

hcircuit_GET ==
  /\ Handling("hcircuit", "GET")
  /\ resp' = [hcircuit_GET_result(cfg, req, hc) EXCEPT
               !.alt = get_godalt(cfg, req.user, "godhcircuits", "hcircuits")]
  /\ UNCHANGED <<rt, hc, dh, broker>>

hcircuit_POST ==
  /\ Handling("hcircuit", "POST")
  /\ \E fail \in FailPoints \ {"pub"} :
       /\ resp' = [hcircuit_POST_result(cfg, req, fail, hc) EXCEPT
                    !.alt = get_godalt(cfg, req.user, "godhcircuits", "hcircuits")]
       /\ hc' = FoldEnt(hc, resp'.calls)
  /\ UNCHANGED <<rt, dh, broker>>

dhwt_GET ==
  /\ Handling("dhwt", "GET")
  /\ resp' = [dhwt_GET_result(cfg, req, dh) EXCEPT
               !.alt = get_godalt(cfg, req.user, "goddhwts", "dhwts")]
  /\ UNCHANGED <<rt, hc, dh, broker>>

dhwt_POST ==
  /\ Handling("dhwt", "POST")
  /\ \E fail \in FailPoints \ {"pub"} :
       /\ resp' = [dhwt_POST_result(cfg, req, fail, dh) EXCEPT
                    !.alt = get_godalt(cfg, req.user, "goddhwts", "dhwts")]
       /\ dh' = FoldEnt(dh, resp'.calls)
  /\ UNCHANGED <<rt, hc, broker>>

\* no pattern of urls matches the path
NoRoute ==
  /\ phase = "serving"
  /\ pc = "recv"
  /\ ~Routed(req)
  /\ pc' = "done"
  /\ resp' = Result(<<>>, "notfound", 0)
  /\ UNCHANGED <<cfg, phase, gwUp, rt, hc, dh, broker, startpub, req, thr>>

\* the response is sent; nothing of the request is kept
Respond ==
  /\ pc = "done"
  /\ pc' = "idle"
  /\ req' = NoReq
  /\ resp' = NoResp
  /\ UNCHANGED <<cfg, phase, gwUp, rt, hc, dh, broker, startpub, thr>>

Next ==
  \/ GatewayComesUp
  \/ StartupSkip
  \/ StartupRetry
  \/ StartupPublish
  \/ Receive
  \/ rwchcd_GET
  \/ rwchcd_POST
  \/ hcircuit_GET
  \/ hcircuit_POST
  \/ dhwt_GET
  \/ dhwt_POST
  \/ NoRoute
  \/ Respond

Spec == Init /\ [][Next]_vars

----------------------------------------------------------------------------
(* startup() alone, from any state of the daemon.  The loop of startup()  *)
(* keeps running, the daemon may never come up.                            *)

InitStartup ==
  /\ cfg \in CfgSet
  /\ phase = "startup"
  /\ gwUp \in BOOLEAN
  /\ rt \in [SystemMode : 0..MaxPrimary, StopDhw : BOOLEAN]
  /\ hc = Entity(1)
  /\ dh = Entity(2)
  /\ broker = NoPub
  /\ startpub = <<>>
  /\ pc = "idle"
  /\ req = NoReq
  /\ resp = NoResp
  /\ thr = NoThreads

NextStartup ==
  \/ GatewayComesUp
  \/ StartupSkip
  \/ StartupRetry
  \/ StartupPublish

SpecStartup ==
  /\ InitStartup
  /\ [][NextStartup]_vars
  /\ WF_vars(StartupPublish)
  /\ WF_vars(StartupSkip)

----------------------------------------------------------------------------
(* Two global-mode submissions handled by two threads of the server.  Each *)
(* D-Bus write and the publish is one step; the submissions are valid ones *)
(* and no call raises.                                                     *)

\* a mode list with entries that disable DHW (code + 128)
ModesDhwOff ==
  << <<2, "Auto">>, <<4, "Reduit">>, <<130, "Auto sans ECS">>,
     <<131, "Confort sans ECS">> >>

CfgDhwOff == [CfgFull EXCEPT !.modes = Lst(ModesDhwOff)]

InitConc ==
  /\ cfg \in {CfgDhwOff, [CfgDhwOff EXCEPT !.mqtthost = NoneS]}
  /\ phase = "serving"
  /\ gwUp = TRUE
  /\ rt \in {[SystemMode |-> 2, StopDhw |-> FALSE],
             [SystemMode |-> 4, StopDhw |-> TRUE]}
  /\ hc = Entity(1)
  /\ dh = Entity(2)
  /\ broker = NoPub
  /\ startpub = <<>>
  /\ pc = "idle"
  /\ req = NoReq
  /\ resp = NoResp
  /\ thr = NoThreads

ThreadStep(t, from, to) ==
  /\ thr[t].pc = from
  /\ thr' = [thr EXCEPT ![t].pc = to]
  /\ UNCHANGED <<cfg, phase, gwUp, hc, dh, startpub, pc, req, resp>>

\* fr.validates() passed; mode = int(fr.sysmode.value)
POST_begin(t) ==
  /\ thr[t].pc = "idle"
  /\ \E m \in Codes(get_godalt(cfg, NoneS, "godmodes", "modes").v) :
       thr' = [thr EXCEPT ![t] = [pc |-> "StopDhw", mode |-> m]]
  /\ UNCHANGED <<cfg, phase, gwUp, rt, hc, dh, broker, startpub, pc, req, resp>>

\* rwchcd_Runtime.StopDhw = mode & 0x80
POST_StopDhw(t) ==
  /\ ThreadStep(t, "StopDhw", "SystemMode")
  /\ rt' = rt_StopDhw(rt, SysmodeStopDhw(thr[t].mode))
  /\ UNCHANGED broker

\* rwchcd_Runtime.SystemMode = mode & 0x7F
POST_SystemMode(t) ==
  /\ ThreadStep(t, "SystemMode", "publish")
  /\ rt' = rt_SystemMode(rt, SysmodePrimary(thr[t].mode))
  /\ UNCHANGED broker

\* mqtt_pub_mode(mode), system("/usr/sbin/fh-sync") and render.valid
POST_publish(t) ==
  /\ ThreadStep(t, "publish", "done")
  /\ broker' = FoldBroker(broker, mqtt_pub_mode(cfg, thr[t].mode, "none").calls)
  /\ UNCHANGED rt

NextConc ==
  \E t \in Threads :
    \/ POST_begin(t)
    \/ POST_StopDhw(t)
    \/ POST_SystemMode(t)
    \/ POST_publish(t)

SpecConc == InitConc /\ [][NextConc]_vars

----------------------------------------------------------------------------
(* Properties *)

DonePost(kind) == pc = "done" /\ req.kind = kind /\ req.method = "POST"

EntityPost == DonePost("hcircuit") \/ DonePost("dhwt")

\* the entity the request is about, and the run-mode list of its caller
TheEntity == IF req.kind = "hcircuit" THEN hc ELSE dh

TheRunmodes ==
  IF req.kind = "hcircuit"
  THEN get_godalt(cfg, req.user, "hcircgodmodes", "hcircrunmodes")
  ELSE get_godalt(cfg, req.user, "dhwtgodmodes", "dhwtrunmodes")

TheModes == get_godalt(cfg, req.user, "godmodes", "modes")

Issued(op) == \E i \in 1..Len(resp.calls) : resp.calls[i].op = op

CountOf(op) == Cardinality({i \in 1..Len(resp.calls) : resp.calls[i].op = op})

\* a submission that passed validation and whose first mutation returned,
\* with a run-mode list: the handler went on to the override
Reconciled ==
  /\ EntityPost
  /\ TruthyL(TheRunmodes)
  /\ Len(resp.calls) >= 1
  /\ resp.calls[1].ok

OverrideRequested == Checked(req.overriderunmode)

RequestedMode == PyInt(req.runmode)

\* C1: standing-mode collapse.  A submission that asks for an override with
\* a mode equal to the entity's RunModeOrig makes the handler issue
\* DisableRunmodeOverride and no SetRunmodeOverride.
C1_StandingModeCollapse ==
  (/\ Reconciled
   /\ OverrideRequested
   /\ RequestedMode.ok
   /\ RequestedMode.n = TheEntity.RunModeOrig)
  => (Issued("clearOverride") /\ ~Issued("setOverride"))

\* a circuit whose standing mode 1 is asked for as an override
C1_Witness ==
  /\ Reconciled
  /\ req.kind = "hcircuit"
  /\ OverrideRequested
  /\ RequestedMode.ok
  /\ RequestedMode.n = hc.RunModeOrig
  /\ Issued("clearOverride")
  /\ resp.outcome = "valid"

KeyPairs ==
  {<<"godmodes", "modes">>, <<"godhcircuits", "hcircuits">>,
   <<"hcircgodmodes", "hcircrunmodes">>, <<"goddhwts", "dhwts">>,
   <<"dhwtgodmodes", "dhwtrunmodes">>}

FirstLookup ==
  IF req.kind = "rwchcd" THEN <<"godmodes", "modes">>
  ELSE IF req.kind = "hcircuit" THEN <<"godhcircuits", "hcircuits">>
  ELSE <<"goddhwts", "dhwts">>

\* the identity is non-empty and is the non-empty admin name, and the
\* privileged key is present and non-empty
PrivilegedApplies(kp) ==
  /\ req.user.has /\ req.user.v # ""
  /\ cfg.godname.has /\ cfg.godname.v # ""
  /\ req.user.v = cfg.godname.v
  /\ cfg[kp[1]].has /\ cfg[kp[1]].v # <<>>

Resolved(kp) == IF PrivilegedApplies(kp) THEN cfg[kp[1]] ELSE cfg[kp[2]]

\* C2: get_godalt returns the privileged key's value exactly when the
\* caller is the non-empty admin name and the privileged key is present and
\* non-empty, and the standard key's value (none when absent) otherwise.
C2_Resolve ==
  (pc = "done" /\ Routed(req)) =>
    /\ resp.alt = Resolved(FirstLookup)
    /\ \A kp \in KeyPairs :
         get_godalt(cfg, req.user, kp[1], kp[2]) = Resolved(kp)

\* no admin name configured and an anonymous caller: the standard list
C2_Witness ==
  /\ pc = "done"
  /\ req.kind = "rwchcd"
  /\ ~cfg.godname.has
  /\ ~req.user.has
  /\ cfg.godmodes # cfg.modes
  /\ resp.alt = cfg.modes

\* C6: a submission that does not ask for an override (checkbox absent)
\* makes the handler issue DisableRunmodeOverride, whatever the submitted
\* mode, and no SetRunmodeOverride.
C6_NoOverrideClears ==
  (Reconciled /\ ~OverrideRequested)
  => (Issued("clearOverride") /\ ~Issued("setOverride"))

\* the checkbox is absent and the submitted mode is not an integer
C6_Witness ==
  /\ Reconciled
  /\ ~req.overriderunmode.has
  /\ req.runmode.has
  /\ ~RequestedMode.ok
  /\ Issued("clearOverride")
  /\ resp.outcome = "valid"

\* C7: a submission that asks for an override with a mode m other than
\* RunModeOrig makes the handler issue SetRunmodeOverride(m), once, with the
\* submitted code, and no DisableRunmodeOverride.
C7_SetOverride ==
  (/\ Reconciled
   /\ OverrideRequested
   /\ RequestedMode.ok
   /\ RequestedMode.n # TheEntity.RunModeOrig)
  => /\ Len(resp.calls) = 2
     /\ resp.calls[2].op = "setOverride"
     /\ resp.calls[2].n = RequestedMode.n
     /\ ~Issued("clearOverride")

\* standing mode 2, mode 3 asked for: SetRunmodeOverride(3)
C7_Witness ==
  /\ Reconciled
  /\ req.kind = "dhwt"
  /\ dh.RunModeOrig = 2
  /\ OverrideRequested
  /\ RequestedMode.ok /\ RequestedMode.n = 3
  /\ resp.calls[2].op = "setOverride"
  /\ resp.calls[2].n = 3
  /\ resp.outcome = "valid"

\* a global-mode submission that passed line 277 and whose value is an int
GlobalSubmitted ==
  /\ DonePost("rwchcd")
  /\ TruthyL(TheModes)
  /\ PyInt(req.sysmode).ok

Composite_c == PyInt(req.sysmode).n

\* C8: a global-mode submission of composite c writes StopDhw as "bit 7 of c
\* is set" and SystemMode as c mod 128; the StopDhw write comes first, the
\* SystemMode write is attempted whenever the StopDhw write returned, and a
\* request answered as valid has made both.
C8_BothMutations ==
  GlobalSubmitted =>
    /\ Len(resp.calls) >= 1
    /\ resp.calls[1].op = "setSuppressFlag"
    /\ resp.calls[1].b = ((Composite_c \div 128) % 2 = 1)
    /\ CountOf("setSuppressFlag") = 1
    /\ CountOf("setSystemMode") <= 1
    /\ resp.calls[1].ok =>
         /\ Len(resp.calls) >= 2
         /\ resp.calls[2].op = "setSystemMode"
         /\ resp.calls[2].n = Composite_c % 128
    /\ ~resp.calls[1].ok => ~Issued("setSystemMode")
    /\ resp.outcome = "valid" => (resp.calls[1].ok /\ resp.calls[2].ok)

\* composite 131: StopDhw = true and SystemMode = 3
C8_Witness ==
  /\ GlobalSubmitted
  /\ Composite_c = 131
  /\ resp.outcome = "valid"
  /\ resp.calls[1] = setSuppressFlag(TRUE, TRUE)
  /\ resp.calls[2] = setSystemMode(3, TRUE)
  /\ rt.StopDhw /\ rt.SystemMode = 3

\* a submitted mode code that is not in the list resolved for the caller
NotAChoice(text, list) ==
  ~PyInt(text).ok \/ PyInt(text).n \notin Codes(list.v)

\* some field of the submission is invalid: the offset is not a decimal
\* number, or the mode code (of a request that asks for a mode) is not in
\* the list resolved for the caller
SomeFieldInvalid ==
  \/ /\ DonePost("rwchcd")
     /\ NotAChoice(req.sysmode, TheModes)
  \/ /\ DonePost("hcircuit")
     /\ \/ ~(req.overridetemp.has /\ MatchesDecimal(req.overridetemp.v))
        \/ OverrideRequested /\ NotAChoice(req.runmode, TheRunmodes)
  \/ /\ DonePost("dhwt")
     /\ OverrideRequested /\ NotAChoice(req.runmode, TheRunmodes)

NoMutation == \A i \in 1..Len(resp.calls) : resp.calls[i].op \notin Mutating

\* C3: validation totality.  A submission with an invalid field makes no
\* mutating gateway call.
C3_ValidationTotality == SomeFieldInvalid => NoMutation

\* C4: SetRunmodeOverride is only issued with a code of the run-mode list
\* resolved for the caller and the entity kind of the request.
C4_OverrideInChoices ==
  EntityPost =>
    \A i \in 1..Len(resp.calls) :
      resp.calls[i].op = "setOverride" =>
        (TheRunmodes.has /\ resp.calls[i].n \in Codes(TheRunmodes.v))

\* C5: every SystemMode written is the primary code of a member of the
\* mode list resolved for the caller of the submission.
C5_SystemModeInChoices ==
  DonePost("rwchcd") =>
    \A i \in 1..Len(resp.calls) :
      (resp.calls[i].op = "setSystemMode" /\ resp.calls[i].ok) =>
        (TheModes.has /\
         resp.calls[i].n \in {k % 128 : k \in Codes(TheModes.v)})

\* exactly one of the two writes of a global-mode submission was made
PartialFailure ==
  /\ GlobalSubmitted
  /\ Len(resp.calls) >= 2
  /\ resp.calls[1].op = "setSuppressFlag" /\ resp.calls[1].ok
  /\ resp.calls[2].op = "setSystemMode" /\ ~resp.calls[2].ok

\* the outcome of the same submission when no write is made
TotalFailureOutcome == rwchcd_POST_result(cfg, req, "w1").outcome

\* C9: when one of the two writes succeeds and the other fails the caller
\* gets an outcome other than that of a submission of which no write
\* succeeded, and the write that succeeded stays.
C9_PartialFailureDistinct ==
  PartialFailure =>
    /\ resp.outcome # TotalFailureOutcome
    /\ rt.StopDhw = resp.calls[1].b

\* the publish of a global-mode submission raised after both writes
PublishFailed ==
  /\ GlobalSubmitted
  /\ Len(resp.calls) >= 3
  /\ resp.calls[1].ok /\ resp.calls[2].ok
  /\ resp.calls[3].op = "publish" /\ ~resp.calls[3].ok

\* C10: a publish that fails after both writes is swallowed: the writes
\* stay, the request is answered as valid and the steps after the publish
\* are made.
C10_PublishBestEffort ==
  PublishFailed =>
    /\ rt.StopDhw = resp.calls[1].b
    /\ rt.SystemMode = resp.calls[2].n
    /\ resp.outcome = "valid"
    /\ Issued("fhsync")

\* the composite of what a request wrote: (primary & 0x7F) | 0x80 when the
\* flag was written true
WrittenComposite ==
  (resp.calls[2].n % 128) + (IF resp.calls[1].b THEN 128 ELSE 0)

\* C11: a global-mode submission answered as valid (notification host set)
\* makes exactly one publication, after both writes, whose payload is the
\* composite of what was written; a submission that failed validation makes
\* no publication.
C11_PublishAfterMutation ==
  DonePost("rwchcd") =>
    /\ (resp.outcome = "valid" /\ TruthyS(cfg.mqtthost)) =>
         /\ CountOf("publish") = 1
         /\ resp.calls[1].op = "setSuppressFlag"
         /\ resp.calls[2].op = "setSystemMode"
         /\ resp.calls[3].op = "publish"
         /\ resp.calls[3].n = WrittenComposite
    /\ (TruthyL(TheModes) /\ NotAChoice(req.sysmode, TheModes)) =>
         ~\E i \in 1..Len(resp.calls) :
             resp.calls[i].op = "publish" /\ resp.calls[i].ok

\* primary | 0x80 when the flag is set
StartupComposite == rt.SystemMode + (IF rt.StopDhw THEN 128 ELSE 0)

OnePublication(n) ==
  /\ Len(startpub) = 1
  /\ startpub[1].op = "publish"
  /\ startpub[1].n = n

\* C12 as stated: nothing is published before the daemon is reached, and
\* once it is reached and the loop is left exactly one publication of the
\* composite is made.
C12_StartupPublishes ==
  /\ phase = "startup" => (startpub = <<>> /\ broker = NoPub)
  /\ (phase # "startup" /\ gwUp) => OnePublication(StartupComposite)

\* C12, amended: with "modes" configured startup() retries while the daemon
\* is unreachable and publishes nothing before it is reached; once it is
\* reachable the loop ends, and one publish of the composite is made when
\* the MQTT host and topic base are configured, none otherwise.  Without
\* "modes" startup() neither waits nor publishes.
C12_StartupAmended ==
  /\ [](phase = "startup" => (startpub = <<>> /\ broker = NoPub))
  /\ [][(phase = "startup" /\ TruthyL(cfg.modes) /\ ~gwUp)
          => phase' = "startup"]_vars
  /\ []((phase # "startup" /\ TruthyL(cfg.modes)) =>
          /\ gwUp
          /\ IF TruthyS(cfg.mqtthost) /\ cfg.mqtttopicbase.has
             THEN OnePublication(StartupComposite)
             ELSE startpub = <<>>)
  /\ []((phase # "startup" /\ ~TruthyL(cfg.modes)) => startpub = <<>>)
  /\ (phase = "startup" /\ gwUp) ~> (phase # "startup")

\* the daemon came up after the process, the flag is set: primary + 128
C12_Witness ==
  /\ phase = "serving"
  /\ gwUp
  /\ rt.StopDhw
  /\ startpub = <<publish(rt.SystemMode + 128, TRUE)>>
  /\ broker = [has |-> TRUE, n |-> rt.SystemMode + 128]

\* C13: composing (primary, suppress) as startup() and GET do and
\* decomposing the result as POST does gives (primary, suppress) back, for
\* every primary in 0..127.
C13_RoundTrip ==
  /\ SysmodePrimary(Composite(rt)) = rt.SystemMode
  /\ SysmodeStopDhw(Composite(rt)) = rt.StopDhw
  /\ startpub # <<>> =>
       /\ SysmodePrimary(startpub[1].n) = rt.SystemMode
       /\ SysmodeStopDhw(startpub[1].n) = rt.StopDhw

\* primary 127 with the flag set is published as 255
C13_Witness ==
  /\ rt = [SystemMode |-> MaxPrimary, StopDhw |-> TRUE]
  /\ startpub # <<>>
  /\ startpub[1].n = 255
  /\ SysmodePrimary(startpub[1].n) = 127
  /\ SysmodeStopDhw(startpub[1].n)

EntityRequest == pc = "done" /\ req.kind \in {"hcircuit", "dhwt"}

\* the entity-id list resolved for the caller's tier
TheIds ==
  IF req.kind = "hcircuit"
  THEN get_godalt(cfg, req.user, "godhcircuits", "hcircuits")
  ELSE get_godalt(cfg, req.user, "goddhwts", "dhwts")

IdValue == PyInt(Lst(req.id))

\* C14: a request for an id that is not in the id list resolved for the
\* caller is answered not found, a request made with no such list or with an
\* id that is not an integer is answered bad request, and neither performs a
\* gateway call on the entity.
C14_UnknownEntity ==
  EntityRequest =>
    /\ (TheIds.has /\ IdValue.ok /\ IdValue.n \notin Members(TheIds.v))
         => resp.outcome = "notfound"
    /\ (~TheIds.has \/ ~IdValue.ok) => resp.outcome = "badrequest"
    /\ resp.outcome \in {"notfound", "badrequest"} => resp.calls = <<>>

NoFailedCall == \A i \in 1..Len(resp.calls) : resp.calls[i].ok

OverrideState(e) == <<e.RunModeOverride, e.RunMode>>

\* the handling of an entity submission made without a run-mode list
DisabledSubmission ==
  /\ pc = "recv"
  /\ pc' = "done"
  /\ req.kind \in {"hcircuit", "dhwt"}
  /\ req.method = "POST"
  /\ ~TruthyL(TheRunmodes)

FeatureDisabledOutcome ==
  /\ (DonePost("rwchcd") /\ ~TruthyL(TheModes)) =>
       /\ resp.outcome = "badrequest"
       /\ resp.calls = <<>>
  /\ (EntityPost /\ Routed(req) /\ ~TruthyL(TheRunmodes)) =>
       /\ ~Issued("setOverride")
       /\ ~Issued("clearOverride")
       /\ Len(resp.calls) <= 1
       /\ NoFailedCall =>
            resp.outcome \in {"valid", "form", "notfound", "badrequest"}
       /\ (resp.outcome = "valid") => Len(resp.calls) = 1

\* C17: with the resolved choice list absent or empty a global-mode
\* submission is answered bad request with no gateway call and no
\* publication, and an entity submission issues neither setOverride nor
\* clearOverride, leaves the override state of the entity as it was, and
\* ends as a form or a valid response unless a gateway call itself failed.
C17_FeatureDisabled ==
  /\ []FeatureDisabledOutcome
  /\ [][DisabledSubmission =>
          /\ OverrideState(hc') = OverrideState(hc)
          /\ OverrideState(dh') = OverrideState(dh)]_vars

\* an override is asked of an overridden entity by a caller whose run-mode
\* list is empty: the first mutation is made, the override stays
C17_Witness ==
  /\ EntityPost
  /\ TheEntity.RunModeOverride
  /\ ~TruthyL(TheRunmodes)
  /\ Checked(req.overriderunmode)
  /\ PyInt(req.runmode).ok
  /\ resp.outcome = "valid"
  /\ Len(resp.calls) = 1
  /\ resp.calls[1].ok

FirstMutation == IF req.kind = "hcircuit" THEN "setOffset" ELSE "setForceCharge"

OverrideCallCount == CountOf("setOverride") + CountOf("clearOverride")

\* C15: in one reconciliation the first mutation (setOffset, the
\* force-charge write) is issued before the override mutation, each call is
\* issued at most once, at most one of setOverride / clearOverride is
\* issued, and exactly one of them when the run-mode list is available.
C15_Ordering ==
  (EntityPost /\ Routed(req)) =>
    /\ CountOf(FirstMutation) <= 1
    /\ OverrideCallCount <= 1
    /\ Len(resp.calls) = CountOf(FirstMutation) + OverrideCallCount
    /\ resp.calls # <<>> => resp.calls[1].op = FirstMutation
    /\ Reconciled => OverrideCallCount = 1

\* the offsets of the submissions, as numbers: mantissa and decimals
SubmittedOffset ==
  IF req.overridetemp = Txt(<<"-", "1", ".", "5">>) THEN <<-15, 1>>
  ELSE IF req.overridetemp = Txt(<<"2", ".">>) THEN <<2, 0>>
  ELSE NoF

CircuitFound == resp.outcome \notin {"notfound", "badrequest"}

\* C16: in a circuit submission, whenever the offset field passes
\* validation setOffset is issued first with the submitted number, whatever
\* the override request, the run-mode list and the override state are; a
\* rejected offset makes no gateway call.
C16_OffsetUnconditional ==
  (DonePost("hcircuit") /\ CircuitFound) =>
    IF formHcTemps_validates(req.overridetemp)
    THEN /\ SubmittedOffset # NoF
         /\ CountOf("setOffset") = 1
         /\ resp.calls[1].op = "setOffset"
         /\ resp.calls[1].f = SubmittedOffset
         /\ resp.calls[1].ok => hc.TempOffsetOverride = SubmittedOffset
    ELSE /\ SubmittedOffset = NoF
         /\ resp.calls = <<>>
         /\ resp.outcome = "form"

\* "-1.5" with an override asked for and no run-mode list
C16_Witness ==
  /\ DonePost("hcircuit")
  /\ req.overridetemp = Txt(<<"-", "1", ".", "5">>)
  /\ OverrideRequested
  /\ ~TruthyL(TheRunmodes)
  /\ resp.calls = <<setOffset(<<-15, 1>>, TRUE)>>
  /\ hc.TempOffsetOverride = <<-15, 1>>

Standard(e) == ~e.RunModeOverride /\ e.RunMode = e.RunModeOrig

Overridden(e, v) == e.RunModeOverride /\ e.RunMode = v

\* C18: an entity is never left overridden with its standing mode; after a
\* completed valid reconciliation it is Overridden(v) exactly when the
\* request asked for an override with v different from the standing mode,
\* and Standard when the request disabled the override or asked for the
\* standing mode.
C18_OverrideStateMachine ==
  /\ \A e \in {hc, dh} :
       \/ Standard(e)
       \/ Overridden(e, e.RunMode) /\ e.RunMode # e.RunModeOrig
  /\ (Reconciled /\ resp.outcome = "valid") =>
       IF OverrideRequested /\ RequestedMode.n # TheEntity.RunModeOrig
       THEN Overridden(TheEntity, RequestedMode.n)
       ELSE Standard(TheEntity)

\* the tank is overridden to 3, then the circuit is asked for its standing
\* mode and stays standard
C18_Witness ==
  /\ Overridden(dh, 3)
  /\ DonePost("hcircuit")
  /\ Reconciled
  /\ resp.outcome = "valid"
  /\ OverrideRequested
  /\ RequestedMode.n = hc.RunModeOrig
  /\ Standard(hc)

BothCompleted == \A t \in Threads : thr[t].pc = "done"

\* (primary, suppress) of a submitted composite
DecompositionOf(mode) ==
  [SystemMode |-> mode % 128, StopDhw |-> (mode \div 128) % 2 = 1]

\* C19: once two concurrent valid global-mode submissions have both
\* completed, the gateway's (primary mode, suppress flag) pair is the
\* decomposition of one of the two submitted composites, and the last
\* published value is the composite of that pair.
C19_NoLockNeeded ==
  BothCompleted =>
    /\ \E t \in Threads : rt = DecompositionOf(thr[t].mode)
    /\ TruthyS(cfg.mqtthost) =>
         broker = [has |-> TRUE,
                   n |-> rt.SystemMode + (IF rt.StopDhw THEN 128 ELSE 0)]

====
